---- MODULE Spec2Model ----
(***************************************************************************)
(* Model of the CourseInsight Flask backend (app.py, kt_service.py,        *)
(* llm_service.py).  A request is served by a worker thread that runs the  *)
(* require_api_key decorator and then the endpoint's handler.  JSON values *)
(* are records tagged by "kind"; probabilities are in hundredths.          *)
(***************************************************************************)
EXTENDS Integers, Sequences, FiniteSets, TLC

\* ------------------------------------------------------------------ bounds
\* longest responses list of a request (one request in flight)
MaxLen == 3
\* longest history list of a request
MaxHist == 1
\* most whitespace-separated tokens in an Authorization header
MaxTokens == 3
\* worker threads serving requests concurrently
NThreads == 2
\* most books of a request, chapters of a book, H5P transcripts of a request
MaxBooks == 1
MaxChapters == 1
MaxH5p == 1
\* most items (chapters and H5P transcripts together) and most books of a
\* request whose lists are analysed in order
MaxItems == 3
MaxOrderBooks == 2

\* ------------------------------------------------------------------- state
VARIABLES
    pc,                \* where each worker thread is
    request,           \* the request a thread serves: endpoint and header
    body,              \* the request's body, once request.json has read it
    frame,             \* the handler's local variables
    kt_state,          \* generate_feedback's student_kt_state
    response,          \* the response sent for the request
    calls,             \* the service functions called for the request, in order
    raised,            \* where an exception was raised while serving it
    replay             \* for a request sent again: what its first run gave

vars == <<pc, request, body, frame, kt_state, response, calls, raised, replay>>

\* ------------------------------------------------------------ JSON values
Absent == [kind |-> "absent"]
None == [kind |-> "null"]
JInt(n) == [kind |-> "int", n |-> n]
JStr(s) == [kind |-> "str", s |-> s]
JList(items) == [kind |-> "list", items |-> items]

\* dict.get(key, default): the default only when the key is absent
Get(d, key, default) == IF d[key] = Absent THEN default ELSE d[key]

\* Python truthiness, as all([...]) and `if x:` apply it
Truthy(v) ==
    CASE v.kind = "int" -> v.n # 0
      [] v.kind = "str" -> v.s # ""
      [] v.kind = "list" -> v.items # <<>>
      [] v.kind = "object" -> TRUE
      [] OTHER -> FALSE

\* an exception raised by a call, or the value it returns
Raise(e) == [exc |-> e]
Return(v) == [value |-> v]
Raised(r) == "exc" \in DOMAIN r

\* sequences over S of length at most n
SeqUpTo(S, n) == UNION {[1..k -> S] : k \in 0..n}

\* jsonify(...) with its HTTP status code
Json(code, payload) == [code |-> code, json |-> payload]
ErrorJson(code, message) == Json(code, [status |-> "error", message |-> message])
\* the response Flask builds for an HTTPException that leaves the view function
HttpError(code) == [code |-> code, html |-> TRUE]
NoResponse == [code |-> 0]

\* ---------------------------------------------------------- configuration
LMS_API_KEY == "Key1"

\* ------------------------------------------------------- require_api_key
\* str.lower() on the tokens a header can hold
Lower(tok) ==
    CASE tok = "Bearer" -> "bearer"
      [] tok = "BEARER" -> "bearer"
      [] tok = "Basic" -> "basic"
      [] tok = "Key1" -> "key1"
      [] OTHER -> tok

Tokens == {"Bearer", "BEARER", "Basic", "Key1", "key1"}

\* the Authorization header: absent, the empty string, or text that
\* str.split() cuts into tokens (no token: whitespace only)
Headers ==
    {[kind |-> "absent"], [kind |-> "empty"]}
        \cup {[kind |-> "text", tokens |-> s] : s \in SeqUpTo(Tokens, MaxTokens)}

Pass == [pass |-> TRUE]
Reject(resp) == [pass |-> FALSE, response |-> resp]

\* the decorator checking the scheme and not the key
require_api_key_nokey(auth_header) ==
    IF auth_header.kind \in {"absent", "empty"}
    THEN Reject(ErrorJson(401, "Missing Authorization Header"))
    ELSE IF Len(auth_header.tokens) # 2
    THEN Reject(ErrorJson(401, "Invalid Authorization Header format"))
    ELSE IF Lower(auth_header.tokens[1]) # "bearer"
    THEN Reject(ErrorJson(401, "Invalid API Key"))
    ELSE Pass

require_api_key(auth_header) ==
    IF auth_header.kind \in {"absent", "empty"}
    THEN Reject(ErrorJson(401, "Missing Authorization Header"))
    ELSE IF LMS_API_KEY = ""
    THEN Reject(ErrorJson(500, "API Key not configured on server"))
    ELSE IF Len(auth_header.tokens) # 2
    THEN Reject(ErrorJson(401, "Invalid Authorization Header format"))
    ELSE IF Lower(auth_header.tokens[1]) # "bearer"
            \/ auth_header.tokens[2] # LMS_API_KEY
    THEN Reject(ErrorJson(401, "Invalid API Key"))
    ELSE Pass

\* ------------------------------------------------------------ kt_service
\* len(x): TypeError on a value that has no length
HasLen(v) == v.kind \in {"list", "str"}
PyLen(v) == IF v.kind = "list" THEN Len(v.items) ELSE Len(v.s)

\* the tracer without the proficiency estimate in its result
trace_student_knowledge_nooverall(user_id, course_id, responses, history, content_views) ==
    IF ~HasLen(responses) \/ ~HasLen(history)
    THEN Raise("TypeError")
    ELSE Return([user_id |-> user_id,
                 course_id |-> course_id,
                 concepts_mastered |-> <<"concept_A", "concept_B">>,
                 concepts_struggling |-> <<"concept_C">>,
                 last_interaction_summary |->
                     [responses |-> PyLen(responses), history |-> PyLen(history)]])

\* the tracer counting the responses of a request again when it is sent again
trace_student_knowledge_accumulating(user_id, course_id, responses, history, content_views) ==
    LET before == IF \E t \in DOMAIN replay : replay[t].again
                  THEN PyLen(responses) ELSE 0
    IN  IF ~HasLen(responses) \/ ~HasLen(history)
        THEN Raise("TypeError")
        ELSE Return([user_id |-> user_id,
                     course_id |-> course_id,
                     concepts_mastered |-> <<"concept_A", "concept_B">>,
                     concepts_struggling |-> <<"concept_C">>,
                     overall_proficiency_estimate |-> 65,
                     last_interaction_summary |->
                         [responses |-> before + PyLen(responses),
                          history |-> PyLen(history)]])

\* the tracer raising the estimate by a step for each response, without a cap
trace_student_knowledge_unclamped(user_id, course_id, responses, history, content_views) ==
    IF ~HasLen(responses) \/ ~HasLen(history)
    THEN Raise("TypeError")
    ELSE Return([user_id |-> user_id,
                 course_id |-> course_id,
                 concepts_mastered |-> <<"concept_A", "concept_B">>,
                 concepts_struggling |-> <<"concept_C">>,
                 overall_proficiency_estimate |-> 65 + 25 * PyLen(responses),
                 last_interaction_summary |->
                     [responses |-> PyLen(responses), history |-> PyLen(history)]])

\* the tracer reading r['correct'] of every response: KeyError when it is missing
trace_student_knowledge_strict(user_id, course_id, responses, history, content_views) ==
    IF ~HasLen(responses) \/ ~HasLen(history)
    THEN Raise("TypeError")
    ELSE IF responses.kind = "list"
            /\ \E i \in 1..Len(responses.items) : responses.items[i].correct = Absent
    THEN Raise("KeyError")
    ELSE Return([user_id |-> user_id,
                 course_id |-> course_id,
                 concepts_mastered |-> <<"concept_A", "concept_B">>,
                 concepts_struggling |-> <<"concept_C">>,
                 overall_proficiency_estimate |-> 65,
                 last_interaction_summary |->
                     [responses |-> PyLen(responses), history |-> PyLen(history)]])

trace_student_knowledge(user_id, course_id, responses, history, content_views) ==
    IF ~HasLen(responses) \/ ~HasLen(history)
    THEN Raise("TypeError")
    ELSE Return([user_id |-> user_id,
                 course_id |-> course_id,
                 concepts_mastered |-> <<"concept_A", "concept_B">>,
                 concepts_struggling |-> <<"concept_C">>,
                 overall_proficiency_estimate |-> 65,
                 last_interaction_summary |->
                     [responses |-> PyLen(responses), history |-> PyLen(history)]])

\* ----------------------------------------------------------- llm_service
\* `kw in text.lower()` for the texts of the model (all shorter than the
\* 30, 50 and 100 characters the functions cut them to)
HasWord(text, kw) ==
    kw \in (CASE text = "define algebra" -> {"define", "algebra"}
              [] text = "explain solving equations" -> {"explain", "solving equations"}
              [] text = "calculate" -> {"calculate"}
              [] text = "algebra and solving equations" -> {"algebra", "solving equations"}
              [] OTHER -> {})

\* text[:n]: TypeError unless the value can be sliced
Sliceable(v) == v.kind \in {"str", "list"}

generate_solution_steps_for_question(question_text, question_type, answers) ==
    IF ~Sliceable(question_text)
    THEN Raise("TypeError")
    ELSE Return(<<[step |-> 1, text |-> question_text], [step |-> 2], [step |-> 3],
                  [step |-> 4]>>
                \o (IF question_type = JStr("multichoice") THEN <<[step |-> 5]>> ELSE <<>>))

classify_bloom_level_for_question(question_text, answers) ==
    IF question_text.kind # "str"
    THEN Raise("TypeError")
    ELSE Return(IF HasWord(question_text.s, "define") \/ HasWord(question_text.s, "list")
                THEN 1
                ELSE IF HasWord(question_text.s, "explain")
                        \/ HasWord(question_text.s, "summarize")
                THEN 2
                ELSE 3)

\* [random.random() for _ in range(128)]: one of the vectors the generator
\* may give
Embeddings == {"embedding_1", "embedding_2"}
generate_embedding_for_text(text_content, rnd) ==
    IF ~Sliceable(text_content) THEN Raise("TypeError") ELSE Return(rnd)

extract_taxonomy_tags_for_text(text_content) ==
    IF text_content.kind # "str"
    THEN Raise("TypeError")
    ELSE LET tags == (IF HasWord(text_content.s, "algebra")
                      THEN <<[name |-> "Algebra", type |-> "topic"]>> ELSE <<>>)
                     \o (IF HasWord(text_content.s, "solving equations")
                         THEN <<[name |-> "Equation Solving", type |-> "skill"]>> ELSE <<>>)
         IN  Return(IF tags = <<>>
                    THEN <<[name |-> "General Knowledge", type |-> "topic"]>>
                    ELSE tags)

summarize_content(text_content) ==
    IF ~Sliceable(text_content)
    THEN Raise("TypeError")
    ELSE Return([summary_of |-> text_content])

update_graph_with_new_data(course_id, analyzed_content_metadata, analyzed_question_metadata) ==
    LET chapters == Get(analyzed_content_metadata, "bookchapters", JList(<<>>))
        h5p == Get(analyzed_content_metadata, "h5pactivities", JList(<<>>))
    IN  IF ~HasLen(chapters) \/ ~HasLen(h5p)
        THEN Raise("TypeError")
        ELSE Return([course_id |-> course_id,
                     bookchapters |-> PyLen(chapters),
                     h5pactivities |-> PyLen(h5p)])

\* dict.get on the knowledge state (a record of the model)
KtGet(kt, key, default) == IF key \in DOMAIN kt THEN kt[key] ELSE default

generate_feedback_with_graphrag_llm(attempt_data, student_kt_state, course_context) ==
    LET attempt_id == Get(attempt_data, "attemptid", None)
        quiz_name == Get(attempt_data, "quizname",
                         [kind |-> "quiz_id", id |-> Get(attempt_data, "quizid", None)])
        student_firstname == Get(attempt_data, "studentfirstname", JStr("Student"))
        new_feedback_start == [part |-> "great_effort", name |-> student_firstname,
                               quiz |-> quiz_name, attempt |-> attempt_id]
        concepts_mastered == KtGet(student_kt_state, "concepts_mastered", <<>>)
        concepts_struggling == KtGet(student_kt_state, "concepts_struggling", <<>>)
    IN  <<new_feedback_start>>
        \o (IF concepts_mastered # <<>>
            THEN <<[part |-> "doing_well", concepts |-> concepts_mastered]>>
            ELSE <<>>)
        \o (IF concepts_struggling # <<>>
            THEN <<[part |-> "review", concepts |-> concepts_struggling]>>
            ELSE <<>>)
        \o <<[part |-> "keep_up"]>>

\* ------------------------------------------------------------------ inputs
Endpoints == {"generate_feedback", "analyze_question", "analyze_course_content",
              "update_knowledge_graph"}

\* one record of responses: the question and whether the answer was right
\* (a record may name a question no concept is known for, or lack `correct`)
ResponseRecords ==
    {[question_id |-> JStr("q_lin_eq"), correct |-> [kind |-> "bool", b |-> TRUE]],
     [question_id |-> JStr("q_lin_eq"), correct |-> [kind |-> "bool", b |-> FALSE]],
     [question_id |-> JStr("q_unknown"), correct |-> Absent]}
HistoryRecords == {[item_id |-> JInt(10), grade |-> JInt(80)]}
ContentViewRecords == {[content_id |-> JInt(5), view_duration |-> JInt(300)]}

FeedbackObjects ==
    [kind : {"object"},
     attemptid : {Absent, JInt(1)},
     userid : {Absent, JInt(0), JInt(42), JInt(43)},
     courseid : {Absent, JInt(7), JInt(8)},
     responses : {Absent, None} \cup {JList(s) : s \in SeqUpTo(ResponseRecords, MaxLen)},
     history : {Absent, None} \cup {JList(s) : s \in SeqUpTo(HistoryRecords, MaxHist)},
     contentviews : {Absent} \cup {JList(<<v>>) : v \in ContentViewRecords},
     quizid : {Absent},
     quizname : {Absent},
     studentfirstname : {Absent}]

\* what the body of a POST can be: not JSON at all, malformed JSON, the JSON
\* null, a JSON array, or a JSON object
NonObjects == {[kind |-> "nojson"], [kind |-> "malformed"], None, JList(<<>>)}
FeedbackBodies == NonObjects \cup FeedbackObjects

QuestionObjects ==
    [kind : {"object"},
     id : {Absent, JInt(11)},
     text : {Absent, JStr("define algebra"), JStr("explain solving equations"),
             JStr("calculate")},
     type : {Absent, JStr("multichoice"), JStr("essay")},
     answers : {Absent}]
QuestionBodies ==
    NonObjects \cup [kind : {"object"}, question : {Absent, None} \cup QuestionObjects]

ChapterObjects ==
    [kind : {"object"},
     chapterid : {Absent, JInt(1)},
     content : {Absent, JStr("algebra and solving equations")}]
BookObjects ==
    [kind : {"object"},
     chapters : {Absent} \cup {JList(c) : c \in SeqUpTo(ChapterObjects, MaxChapters)}]
H5pObjects ==
    [kind : {"object"},
     h5pid : {Absent, JInt(1)},
     transcript : {Absent, JStr("calculate")}]
ContentBodies ==
    NonObjects \cup
    [kind : {"object"},
     books : {Absent, None} \cup {JList(b) : b \in SeqUpTo(BookObjects, MaxBooks)},
     h5p_transcripts : {Absent, None} \cup {JList(h) : h \in SeqUpTo(H5pObjects, MaxH5p)}]

GraphBodies ==
    NonObjects \cup
    [kind : {"object"},
     courseid : {Absent, JInt(7)},
     bookchapters : {Absent, None, JList(<<>>), JList(<<[chapterid |-> JInt(1)]>>)},
     h5pactivities : {Absent, JList(<<>>)},
     questions_metadata : {Absent}]

Unread == [kind |-> "unread"]

\* request.json: BadRequest on malformed JSON; for a body that is not JSON,
\* None or UnsupportedMediaType depending on the installed Flask
RequestJson(b, oldFlask) ==
    CASE b.kind = "malformed" -> Raise(400)
      [] b.kind = "nojson" -> IF oldFlask THEN Return(None) ELSE Raise(415)
      [] OTHER -> Return(b)

\* ------------------------------------------------------------------- start
Threads == 1..NThreads
NoFrame == [kind |-> "none"]
NoState == [kind |-> "none"]
NoReplay == [again |-> FALSE]

Init ==
    /\ pc = [t \in Threads |-> "idle"]
    /\ request = [t \in Threads |-> [endpoint |-> "none", header |-> [kind |-> "absent"]]]
    /\ body = [t \in Threads |-> Unread]
    /\ frame = [t \in Threads |-> NoFrame]
    /\ kt_state = [t \in Threads |-> NoState]
    /\ response = [t \in Threads |-> NoResponse]
    /\ calls = [t \in Threads |-> <<>>]
    /\ raised = [t \in Threads |-> "none"]
    /\ replay = [t \in Threads |-> NoReplay]

\* ------------------------------------------------------------------ actions
\* a request arrives at an idle worker
Receive(t, endpoints, headers) ==
    /\ pc[t] = "idle"
    /\ \E e \in endpoints, h \in headers :
           request' = [request EXCEPT ![t] = [endpoint |-> e, header |-> h]]
    /\ pc' = [pc EXCEPT ![t] = "auth"]
    /\ UNCHANGED <<body, frame, kt_state, response, calls, raised, replay>>

\* decorated_function: the view function runs only when the key is accepted
Authenticate(t) ==
    /\ pc[t] = "auth"
    /\ LET r == require_api_key(request[t].header)
       IN  IF r.pass
           THEN \* return f(*args, **kwargs)
                /\ pc' = [pc EXCEPT ![t] = "handler"]
                /\ calls' = [calls EXCEPT ![t] = <<request[t].endpoint>>]
                /\ UNCHANGED response
           ELSE /\ pc' = [pc EXCEPT ![t] = "done"]
                /\ response' = [response EXCEPT ![t] = r.response]
                /\ UNCHANGED calls
    /\ UNCHANGED <<request, body, frame, kt_state, raised, replay>>

\* no `except` clause: the exception leaves the view function and Flask answers
FeedbackUncaught == HttpError(500)

\* the response of generate_feedback's `except Exception` clause
FeedbackInternalError ==
    ErrorJson(500, "An internal error occurred while generating feedback.")

\* generate_feedback up to the check of the required fields
FeedbackFields(t, bodies) ==
    /\ pc[t] = "handler"
    /\ request[t].endpoint = "generate_feedback"
    /\ \E b \in (IF body[t] = Unread THEN bodies ELSE {body[t]}),
          oldFlask \in BOOLEAN :
        LET j == RequestJson(b, oldFlask) IN
        /\ body' = [body EXCEPT ![t] = b]
        /\ IF Raised(j)
           THEN /\ response' = [response EXCEPT ![t] = HttpError(j.exc)]
                /\ raised' = [raised EXCEPT ![t] = "request.json"]
                /\ pc' = [pc EXCEPT ![t] = "done"]
                /\ UNCHANGED frame
           ELSE LET data == j.value IN
                IF data.kind # "object"
                THEN \* data.get: AttributeError
                     /\ response' = [response EXCEPT ![t] = FeedbackInternalError]
                     /\ raised' = [raised EXCEPT ![t] = "fields"]
                     /\ pc' = [pc EXCEPT ![t] = "done"]
                     /\ UNCHANGED frame
                ELSE LET attempt_id == Get(data, "attemptid", None)
                         user_id == Get(data, "userid", None)
                         course_id == Get(data, "courseid", None)
                         responses == Get(data, "responses", JList(<<>>))
                         history == Get(data, "history", JList(<<>>))
                         content_views == Get(data, "contentviews", JList(<<>>))
                     IN  IF ~(Truthy(attempt_id) /\ Truthy(user_id) /\ Truthy(course_id))
                         THEN /\ response' = [response EXCEPT ![t] = ErrorJson(400,
                                     "Missing required fields: attemptid, userid, or courseid")]
                              /\ pc' = [pc EXCEPT ![t] = "done"]
                              /\ UNCHANGED <<frame, raised>>
                         ELSE /\ frame' = [frame EXCEPT ![t] =
                                     [kind |-> "generate_feedback",
                                      data |-> data,
                                      attempt_id |-> attempt_id,
                                      user_id |-> user_id,
                                      course_id |-> course_id,
                                      responses |-> responses,
                                      history |-> history,
                                      content_views |-> content_views]]
                              /\ pc' = [pc EXCEPT ![t] = "trace"]
                              /\ UNCHANGED <<response, raised>>
    /\ UNCHANGED <<request, kt_state, calls, replay>>

\* the tracer called with the fields some request in flight left in a global
FeedbackTraceShared(t) ==
    /\ pc[t] = "trace"
    /\ \E u \in Threads :
        /\ frame[u] # NoFrame
        /\ LET f == frame[u]
               r == trace_student_knowledge(f.user_id, f.course_id, f.responses,
                                            f.history, f.content_views)
           IN  /\ calls' = [calls EXCEPT ![t] = Append(@, "trace_student_knowledge")]
               /\ IF Raised(r)
                  THEN /\ response' = [response EXCEPT ![t] = FeedbackInternalError]
                       /\ raised' = [raised EXCEPT ![t] = "trace_student_knowledge"]
                       /\ pc' = [pc EXCEPT ![t] = "done"]
                       /\ UNCHANGED kt_state
                  ELSE /\ kt_state' = [kt_state EXCEPT ![t] = r.value]
                       /\ pc' = [pc EXCEPT ![t] = "llm"]
                       /\ UNCHANGED <<response, raised>>
    /\ UNCHANGED <<request, body, frame, replay>>

\* 1. Perform Knowledge Tracing
FeedbackTrace(t) ==
    /\ pc[t] = "trace"
    /\ LET f == frame[t]
           r == trace_student_knowledge(f.user_id, f.course_id, f.responses,
                                        f.history, f.content_views)
       IN  /\ calls' = [calls EXCEPT ![t] = Append(@, "trace_student_knowledge")]
           /\ IF Raised(r)
              THEN /\ response' = [response EXCEPT ![t] = FeedbackInternalError]
                   /\ raised' = [raised EXCEPT ![t] = "trace_student_knowledge"]
                   /\ pc' = [pc EXCEPT ![t] = "done"]
                   /\ UNCHANGED kt_state
              ELSE /\ kt_state' = [kt_state EXCEPT ![t] = r.value]
                   /\ pc' = [pc EXCEPT ![t] = "llm"]
                   /\ UNCHANGED <<response, raised>>
    /\ UNCHANGED <<request, body, frame, replay>>

\* the generator emptying concepts_struggling of the state it was handed
FeedbackGenerateMutating(t) ==
    /\ pc[t] = "llm"
    /\ \E fails \in BOOLEAN :
        LET f == frame[t]
            course_context_for_llm == [course_id |-> f.course_id]
            feedback_text == generate_feedback_with_graphrag_llm(
                                 f.data, kt_state[t], course_context_for_llm)
        IN  /\ calls' = [calls EXCEPT ![t] = Append(@, "generate_feedback_with_graphrag_llm")]
            /\ IF fails
               THEN /\ response' = [response EXCEPT ![t] = FeedbackInternalError]
                    /\ raised' = [raised EXCEPT ![t] = "generate_feedback_with_graphrag_llm"]
               ELSE /\ response' = [response EXCEPT ![t] =
                           Json(200, [status |-> "success", feedback |-> feedback_text])]
                    /\ UNCHANGED raised
    /\ kt_state' = [kt_state EXCEPT ![t] = [@ EXCEPT !.concepts_struggling = <<>>]]
    /\ pc' = [pc EXCEPT ![t] = "done"]
    /\ UNCHANGED <<request, body, frame, replay>>

\* 2., 3. feedback from the knowledge state; `fails`: the call raises
FeedbackGenerate(t) ==
    /\ pc[t] = "llm"
    /\ \E fails \in BOOLEAN :
        LET f == frame[t]
            course_context_for_llm == [course_id |-> f.course_id]
            feedback_text == generate_feedback_with_graphrag_llm(
                                 f.data, kt_state[t], course_context_for_llm)
        IN  /\ calls' = [calls EXCEPT ![t] = Append(@, "generate_feedback_with_graphrag_llm")]
            /\ IF fails
               THEN /\ response' = [response EXCEPT ![t] = FeedbackInternalError]
                    /\ raised' = [raised EXCEPT ![t] = "generate_feedback_with_graphrag_llm"]
               ELSE /\ response' = [response EXCEPT ![t] =
                           Json(200, [status |-> "success", feedback |-> feedback_text])]
                    /\ UNCHANGED raised
    /\ pc' = [pc EXCEPT ![t] = "done"]
    /\ UNCHANGED <<request, body, frame, kt_state, replay>>

\* what a view function that runs in one step leaves behind
Outcome(resp, cs, exc) == [response |-> resp, calls |-> cs, raised |-> exc]

\* the calls made up to the first one that raises, and the response
Chain(names, results, ok, err) ==
    LET bad == {i \in 1..Len(results) : Raised(results[i])}
        first == CHOOSE i \in bad : \A k \in bad : i <= k
    IN  IF bad = {}
        THEN Outcome(ok, names, "none")
        ELSE Outcome(err, SubSeq(names, 1, first), names[first])

EmptyDict == [kind |-> "object", id |-> Absent, text |-> Absent, type |-> Absent,
              answers |-> Absent]

analyze_question(data, rnd) ==
    LET err == ErrorJson(500, "An internal error occurred while analyzing the question.")
    IN  IF data.kind # "object"
        THEN Outcome(err, <<>>, "fields")
        ELSE LET question_data == Get(data, "question", EmptyDict) IN
             IF question_data.kind # "object"
             THEN Outcome(err, <<>>, "fields")
             ELSE LET question_id == Get(question_data, "id", None)
                      question_text == Get(question_data, "text", None)
                      question_type == Get(question_data, "type", None)
                      answers == Get(question_data, "answers", None)
                      solution_steps == generate_solution_steps_for_question(
                                            question_text, question_type, answers)
                      cognitive_level == classify_bloom_level_for_question(
                                             question_text, answers)
                      embedding == generate_embedding_for_text(question_text, rnd)
                      taxonomy_tags == extract_taxonomy_tags_for_text(question_text)
                  IN  IF ~(Truthy(question_id) /\ Truthy(question_text)
                           /\ Truthy(question_type))
                      THEN Outcome(ErrorJson(400,
                               "Missing required question fields: id, text, or type"),
                               <<>>, "none")
                      ELSE Chain(<<"generate_solution_steps_for_question",
                                   "classify_bloom_level_for_question",
                                   "generate_embedding_for_text",
                                   "extract_taxonomy_tags_for_text">>,
                                 <<solution_steps, cognitive_level, embedding,
                                   taxonomy_tags>>,
                                 Json(200, [status |-> "success",
                                            question_id |-> question_id,
                                            embedding |-> embedding.value,
                                            cognitive_level |-> cognitive_level.value,
                                            solution_steps |-> solution_steps.value,
                                            taxonomy |-> taxonomy_tags.value]),
                                 err)

\* the chapters of all books, book by book
\* the chapters of the books, the last book's first
RECURSIVE AllChaptersLastFirst(_)
AllChaptersLastFirst(books) ==
    IF books = <<>>
    THEN <<>>
    ELSE AllChaptersLastFirst(Tail(books))
         \o Get(Head(books), "chapters", JList(<<>>)).items

\* for book in books_data: for chapter in book.get('chapters', [])
RECURSIVE AllChapters(_)
AllChapters(books) ==
    IF books = <<>>
    THEN <<>>
    ELSE Get(Head(books), "chapters", JList(<<>>)).items \o AllChapters(Tail(books))

\* all([id, text]) of an item of a loop
HasBoth(item, idKey, textKey) ==
    Truthy(Get(item, idKey, None)) /\ Truthy(Get(item, textKey, None))

KeptChapters(data) ==
    LET books_data == Get(data, "books", JList(<<>>))
    IN  IF books_data.kind # "list"
        THEN <<>>
        ELSE SelectSeq(AllChapters(books_data.items),
                       LAMBDA c : HasBoth(c, "chapterid", "content"))

KeptH5p(data) ==
    LET h5p_transcripts_data == Get(data, "h5p_transcripts", JList(<<>>))
    IN  IF h5p_transcripts_data.kind # "list"
        THEN <<>>
        ELSE SelectSeq(h5p_transcripts_data.items,
                       LAMBDA h : HasBoth(h, "h5pid", "transcript"))

\* summarize_content, extract_taxonomy_tags_for_text, generate_embedding_for_text
\* once for each of n items
RECURSIVE AnalysisCalls(_)
AnalysisCalls(n) ==
    IF n = 0
    THEN <<>>
    ELSE <<"summarize_content", "extract_taxonomy_tags_for_text",
           "generate_embedding_for_text">> \o AnalysisCalls(n - 1)

analyze_course_content(data, embs) ==
    LET err == ErrorJson(500,
                   "An internal error occurred while analyzing course content.")
    IN  IF data.kind # "object"
        THEN Outcome(err, <<>>, "fields")
        ELSE LET books_data == Get(data, "books", JList(<<>>))
                 h5p_transcripts_data == Get(data, "h5p_transcripts", JList(<<>>))
                 chapters == KeptChapters(data)
                 h5ps == KeptH5p(data)
                 analyzed_book_chapters ==
                     [i \in 1..Len(chapters) |->
                         [chapterid |-> chapters[i].chapterid,
                          summary |-> summarize_content(chapters[i].content).value,
                          taxonomy |->
                              extract_taxonomy_tags_for_text(chapters[i].content).value,
                          embedding |-> embs[i]]]
                 analyzed_h5p_activities ==
                     [i \in 1..Len(h5ps) |->
                         [h5pid |-> h5ps[i].h5pid,
                          summary |-> summarize_content(h5ps[i].transcript).value,
                          taxonomy |->
                              extract_taxonomy_tags_for_text(h5ps[i].transcript).value,
                          embedding |-> embs[Len(chapters) + i]]]
             IN  IF books_data.kind # "list"
                 THEN \* for book in None: TypeError
                      Outcome(err, <<>>, "books")
                 ELSE IF h5p_transcripts_data.kind # "list"
                 THEN Outcome(err, AnalysisCalls(Len(chapters)), "h5p_transcripts")
                 ELSE Outcome(Json(200, [status |-> "success",
                                         bookchapters |-> analyzed_book_chapters,
                                         h5pactivities |-> analyzed_h5p_activities]),
                              AnalysisCalls(Len(chapters) + Len(h5ps)), "none")

update_knowledge_graph(data, rnd) ==
    LET err == ErrorJson(500,
                   "An internal error occurred while updating the knowledge graph.")
    IN  IF data.kind # "object"
        THEN Outcome(err, <<>>, "fields")
        ELSE LET course_id == Get(data, "courseid", None)
                 mock_analyzed_content ==
                     [bookchapters |-> Get(data, "bookchapters", JList(<<>>)),
                      h5pactivities |-> Get(data, "h5pactivities", JList(<<>>))]
                 mock_analyzed_questions == Get(data, "questions_metadata", JList(<<>>))
                 message == update_graph_with_new_data(
                                course_id, mock_analyzed_content, mock_analyzed_questions)
             IN  Chain(<<"update_graph_with_new_data">>, <<message>>,
                       Json(200, [status |-> "success", message |-> message.value]),
                       err)

\* the random vectors a request's calls of generate_embedding_for_text draw
QuestionDraws(data) == Embeddings
ContentDraws(data) ==
    IF data.kind # "object"
    THEN {<<>>}
    ELSE [1..(Len(KeptChapters(data)) + Len(KeptH5p(data))) -> Embeddings]
GraphDraws(data) == {<<>>}

\* the view function app.route binds to an endpoint, and its random draws
View(endpoint, data, draw) ==
    CASE endpoint = "analyze_question" -> analyze_question(data, draw)
      [] endpoint = "analyze_course_content" -> analyze_course_content(data, draw)
      [] endpoint = "update_knowledge_graph" -> update_knowledge_graph(data, draw)
Draws(endpoint, data) ==
    CASE endpoint = "analyze_question" -> QuestionDraws(data)
      [] endpoint = "analyze_course_content" -> ContentDraws(data)
      [] endpoint = "update_knowledge_graph" -> GraphDraws(data)

\* a view function whose whole body is one step of its worker
ServeInOneStep(t, Bodies) ==
    /\ pc[t] = "handler"
    /\ \E b \in (IF body[t] = Unread THEN Bodies ELSE {body[t]}), oldFlask \in BOOLEAN :
        LET j == RequestJson(b, oldFlask) IN
        /\ body' = [body EXCEPT ![t] = b]
        /\ IF Raised(j)
           THEN /\ response' = [response EXCEPT ![t] = HttpError(j.exc)]
                /\ raised' = [raised EXCEPT ![t] = "request.json"]
                /\ UNCHANGED calls
           ELSE \E draw \in Draws(request[t].endpoint, j.value) :
                    LET o == View(request[t].endpoint, j.value, draw)
                    IN  /\ response' = [response EXCEPT ![t] = o.response]
                        /\ raised' = [raised EXCEPT ![t] = o.raised]
                        /\ calls' = [calls EXCEPT ![t] = @ \o o.calls]
    /\ pc' = [pc EXCEPT ![t] = "done"]
    /\ UNCHANGED <<request, frame, kt_state, replay>>

AnalyzeQuestion(t) ==
    /\ request[t].endpoint = "analyze_question"
    /\ ServeInOneStep(t, QuestionBodies)

AnalyzeCourseContent(t) ==
    /\ request[t].endpoint = "analyze_course_content"
    /\ ServeInOneStep(t, ContentBodies)

UpdateKnowledgeGraph(t) ==
    /\ request[t].endpoint = "update_knowledge_graph"
    /\ ServeInOneStep(t, GraphBodies)

\* the client sends the request it just got an answer to once more
Retry(t) ==
    /\ pc[t] = "done"
    /\ ~replay[t].again
    /\ replay' = [replay EXCEPT ![t] = [again |-> TRUE,
                                        kt_state |-> kt_state[t],
                                        response |-> response[t],
                                        raised |-> raised[t]]]
    /\ pc' = [pc EXCEPT ![t] = "auth"]
    /\ frame' = [frame EXCEPT ![t] = NoFrame]
    /\ kt_state' = [kt_state EXCEPT ![t] = NoState]
    /\ response' = [response EXCEPT ![t] = NoResponse]
    /\ calls' = [calls EXCEPT ![t] = <<>>]
    /\ raised' = [raised EXCEPT ![t] = "none"]
    /\ UNCHANGED <<request, body>>

\* the request is over: the worker's request context is dropped
Close(t) ==
    /\ pc[t] = "done"
    /\ pc' = [pc EXCEPT ![t] = "idle"]
    /\ request' = [request EXCEPT ![t] = [endpoint |-> "none", header |-> [kind |-> "absent"]]]
    /\ body' = [body EXCEPT ![t] = Unread]
    /\ frame' = [frame EXCEPT ![t] = NoFrame]
    /\ kt_state' = [kt_state EXCEPT ![t] = NoState]
    /\ response' = [response EXCEPT ![t] = NoResponse]
    /\ calls' = [calls EXCEPT ![t] = <<>>]
    /\ raised' = [raised EXCEPT ![t] = "none"]
    /\ replay' = [replay EXCEPT ![t] = NoReplay]

\* the chapters and H5P transcripts of the requests whose lists are analysed
\* in order: two with both fields, one without a chapterid, one with an empty
\* transcript
OrderChapters ==
    {[kind |-> "object", chapterid |-> JInt(1),
      content |-> JStr("algebra and solving equations")],
     [kind |-> "object", chapterid |-> JInt(2), content |-> JStr("calculate")],
     [kind |-> "object", chapterid |-> Absent, content |-> JStr("calculate")]}
OrderH5p ==
    {[kind |-> "object", h5pid |-> JInt(1), transcript |-> JStr("calculate")],
     [kind |-> "object", h5pid |-> JInt(2), transcript |-> JStr("define algebra")],
     [kind |-> "object", h5pid |-> JInt(3), transcript |-> JStr("")]}

\* the ways to cut the sequence s into b consecutive parts, empty ones included
RECURSIVE Splits(_, _)
Splits(s, b) ==
    IF b = 0
    THEN IF s = <<>> THEN {<<>>} ELSE {}
    ELSE UNION {{<<SubSeq(s, 1, k)>> \o rest :
                    rest \in Splits(SubSeq(s, k + 1, Len(s)), b - 1)} :
                k \in 0..Len(s)}

\* data['books'] when the books hold the chapters cs in this order; a book
\* without chapters has an empty list or no 'chapters' key; without chapters
\* the 'books' key may be left out
OrderBooks(cs) ==
    {JList([i \in 1..Len(parts) |->
               [kind |-> "object",
                chapters |-> IF parts[i] = <<>> THEN empty ELSE JList(parts[i])]]) :
     parts \in UNION {Splits(cs, b) : b \in 0..MaxOrderBooks},
     empty \in {Absent, JList(<<>>)}}
    \cup (IF cs = <<>> THEN {Absent} ELSE {})

\* data['h5p_transcripts'] with at most n items
OrderTranscripts(n) == {JList(h) : h \in SeqUpTo(OrderH5p, n)} \cup {Absent}

\* analyze_course_content on a request with at most MaxItems chapters and H5P
\* transcripts in at most MaxOrderBooks books
AnalyzeCourseContentInOrder(t) ==
    /\ pc[t] = "handler"
    /\ request[t].endpoint = "analyze_course_content"
    /\ \E k \in 0..MaxItems :
        \E cs \in [1..k -> OrderChapters] :
            \E bs \in OrderBooks(cs), hs \in OrderTranscripts(MaxItems - k) :
                ServeInOneStep(t, {[kind |-> "object", books |-> bs,
                                    h5p_transcripts |-> hs]})

\* the requests of the concurrent runs: feedback requests of two students in
\* two courses, with the key or without it
ConcHeaders ==
    {[kind |-> "text", tokens |-> <<"Bearer", "Key1">>],
     [kind |-> "text", tokens |-> <<"Bearer", "key1">>]}
ConcBodies ==
    {None}
    \cup [kind : {"object"},
          attemptid : {JInt(1)},
          userid : {Absent, JInt(42), JInt(43)},
          courseid : {JInt(7), JInt(8)},
          responses : {Absent, None,
                       JList(<<[question_id |-> JStr("q_lin_eq"),
                                correct |-> [kind |-> "bool", b |-> TRUE]]>>)},
          history : {Absent},
          contentviews : {Absent},
          quizid : {Absent},
          quizname : {Absent},
          studentfirstname : {Absent}]

\* one request in flight at a time
Next ==
    \/ Receive(1, Endpoints, Headers)
    \/ Authenticate(1)
    \/ FeedbackFields(1, FeedbackBodies)
    \/ FeedbackTrace(1)
    \/ FeedbackGenerate(1)
    \/ AnalyzeQuestion(1)
    \/ AnalyzeCourseContent(1)
    \/ UpdateKnowledgeGraph(1)
    \/ Retry(1)
    \/ Close(1)

Spec == Init /\ [][Next]_vars

\* NThreads workers serve feedback requests at the same time
NextConc ==
    \E t \in Threads :
        \/ Receive(t, {"generate_feedback"}, ConcHeaders)
        \/ Authenticate(t)
        \/ FeedbackFields(t, ConcBodies)
        \/ FeedbackTrace(t)
        \/ FeedbackGenerate(t)
        \/ Close(t)

SpecConc == Init /\ [][NextConc]_vars

\* one worker serves requests for /api/analyze_course_content
NextContent ==
    \/ Receive(1, {"analyze_course_content"}, ConcHeaders)
    \/ Authenticate(1)
    \/ AnalyzeCourseContentInOrder(1)
    \/ Close(1)

SpecContent == Init /\ [][NextContent]_vars

\* generate_feedback run from its first line to its return, alone
generate_feedback(data, fails) ==
    IF data.kind # "object"
    THEN [response |-> FeedbackInternalError, kt_state |-> NoState]
    ELSE LET attempt_id == Get(data, "attemptid", None)
             user_id == Get(data, "userid", None)
             course_id == Get(data, "courseid", None)
             responses == Get(data, "responses", JList(<<>>))
             history == Get(data, "history", JList(<<>>))
             content_views == Get(data, "contentviews", JList(<<>>))
             student_kt_state == trace_student_knowledge(
                                     user_id, course_id, responses, history, content_views)
             course_context_for_llm == [course_id |-> course_id]
         IN  IF ~(Truthy(attempt_id) /\ Truthy(user_id) /\ Truthy(course_id))
             THEN [response |-> ErrorJson(400,
                       "Missing required fields: attemptid, userid, or courseid"),
                   kt_state |-> NoState]
             ELSE IF Raised(student_kt_state)
             THEN [response |-> FeedbackInternalError, kt_state |-> NoState]
             ELSE IF fails
             THEN [response |-> FeedbackInternalError, kt_state |-> student_kt_state.value]
             ELSE [response |-> Json(200, [status |-> "success",
                       feedback |-> generate_feedback_with_graphrag_llm(
                           data, student_kt_state.value, course_context_for_llm)]),
                   kt_state |-> student_kt_state.value]

\* the decorated view function of /api/generate_feedback, alone
decorated_generate_feedback(auth_header, data, fails) ==
    LET a == require_api_key(auth_header)
    IN  IF a.pass
        THEN generate_feedback(data, fails)
        ELSE [response |-> a.response, kt_state |-> NoState]

\* ------------------------------------------------------------------ claims
\* the header is 'Bearer <LMS_API_KEY>', the scheme in any case
GoodHeader(h) ==
    /\ h.kind = "text"
    /\ Len(h.tokens) = 2
    /\ h.tokens[1] \in {"Bearer", "BEARER"}
    /\ h.tokens[2] = "Key1"

\* a finished request of /api/generate_feedback that carried the key
FeedbackDone(t) ==
    /\ pc[t] = "done"
    /\ request[t].endpoint = "generate_feedback"
    /\ GoodHeader(request[t].header)

\* the response is JSON with status "error" and a message
IsErrorJson(r) ==
    /\ "json" \in DOMAIN r
    /\ DOMAIN r.json = {"status", "message"}
    /\ r.json.status = "error"

\* the identifier is in the body with a value that counts (not 0, not null)
Present(b, key) == b[key].kind = "int" /\ b[key].n # 0
IdsPresent(b) ==
    /\ b.kind = "object"
    /\ Present(b, "attemptid") /\ Present(b, "userid") /\ Present(b, "courseid")

\* an identifier is not in the body, or the body is no JSON object
IdMissing(b) ==
    \/ b.kind # "object"
    \/ \E key \in {"attemptid", "userid", "courseid"} : b[key] \in {Absent, None}

KnowledgeStateKeys ==
    {"concepts_mastered", "concepts_struggling", "overall_proficiency_estimate"}

\* C1 as stated: every successful response of an authenticated feedback request
\* with the three identifiers has status "success" and carries a knowledge_state
\* object with concepts_mastered, concepts_struggling and
\* overall_proficiency_estimate.
C1_KnowledgeStateInResponse ==
    \A t \in Threads :
        (FeedbackDone(t) /\ response[t].code = 200) =>
            /\ response[t].json.status = "success"
            /\ "knowledge_state" \in DOMAIN response[t].json
            /\ KnowledgeStateKeys \subseteq DOMAIN response[t].json.knowledge_state

\* C1 amended: every successful response of such a request has status "success"
\* and carries the feedback text and no knowledge_state; the knowledge state
\* traced for the request, from which the text is built, holds the three members.
C1_FeedbackInResponse ==
    \A t \in Threads :
        (FeedbackDone(t) /\ response[t].code = 200) =>
            /\ IdsPresent(body[t])
            /\ DOMAIN response[t].json = {"status", "feedback"}
            /\ response[t].json.status = "success"
            /\ kt_state[t] # NoState
            /\ KnowledgeStateKeys \subseteq DOMAIN kt_state[t]
            /\ response[t].json.feedback =
                   generate_feedback_with_graphrag_llm(
                       body[t], kt_state[t], [course_id |-> body[t].courseid])

C1_Witness ==
    /\ FeedbackDone(1)
    /\ response[1].code = 200
    /\ ~replay[1].again
    /\ body[1].userid = JInt(43)
    /\ body[1].history = JList(<<[item_id |-> JInt(10), grade |-> JInt(80)]>>)

\* C2: an authenticated feedback request that lacks one of attemptid, userid,
\* courseid (a body that is no JSON object included) gets a 400-class error with
\* status "error" and a message, and neither the tracer nor the feedback
\* generator is called.
C2_MissingIdentifiersAre400 ==
    \A t \in Threads :
        (FeedbackDone(t) /\ body[t] # Unread /\ IdMissing(body[t])) =>
            /\ response[t].code \in 400..499
            /\ IsErrorJson(response[t])
            /\ calls[t] = <<"generate_feedback">>

\* C3: on each endpoint a request whose Authorization header is absent, is not
\* two tokens, has a scheme other than bearer (in any case) or another key than
\* LMS_API_KEY gets a 401 with status "error" and its view function, hence every
\* service function, is never called; the view function runs only for
\* 'Bearer <LMS_API_KEY>'.
C3_Unauthorized ==
    \A t \in Threads :
        /\ (pc[t] \notin {"idle", "auth"} /\ ~GoodHeader(request[t].header)) =>
               /\ pc[t] = "done"
               /\ response[t].code = 401
               /\ IsErrorJson(response[t])
               /\ calls[t] = <<>>
               /\ body[t] = Unread
        /\ (calls[t] # <<>> \/ body[t] # Unread \/ pc[t] \in {"handler", "trace", "llm"}) =>
               GoodHeader(request[t].header)
        /\ (pc[t] \notin {"idle", "auth"} /\ GoodHeader(request[t].header)) =>
               (calls[t] # <<>> /\ Head(calls[t]) = request[t].endpoint)

C3_Witness ==
    /\ pc[1] = "done"
    /\ request[1].endpoint = "update_knowledge_graph"
    /\ request[1].header = [kind |-> "text", tokens |-> <<"BEARER", "key1">>]
    /\ response[1].code = 401
    /\ calls[1] = <<>>

\* C4: in /api/generate_feedback an exception raised while the request fields
\* are read, by trace_student_knowledge or by generate_feedback_with_graphrag_llm
\* gives a 500 with status "error" and a message: never a success, never an
\* exception that leaves the view function.
C4_InternalFailureIs500 ==
    \A t \in Threads :
        (FeedbackDone(t)
         /\ \/ raised[t] \in {"fields", "trace_student_knowledge",
                              "generate_feedback_with_graphrag_llm"}
            \/ body[t].kind \in {"null", "list"}
            \/ (IdsPresent(body[t]) /\ None \in {body[t].responses, body[t].history})) =>
            /\ response[t].code = 500
            /\ IsErrorJson(response[t])
            /\ raised[t] \in {"fields", "trace_student_knowledge",
                             "generate_feedback_with_graphrag_llm"}

C4_Witness ==
    /\ FeedbackDone(1)
    /\ raised[1] = "trace_student_knowledge"
    /\ body[1].responses = None
    /\ response[1].code = 500

\* C5: sending the same request twice in a row leaves the knowledge state of the
\* student and course, and what is answered, as sending it once did.
C5_ReplayIdempotent ==
    \A t \in Threads :
        (FeedbackDone(t) /\ replay[t].again) =>
            /\ kt_state[t] = replay[t].kt_state
            /\ (raised[t] = replay[t].raised => response[t] = replay[t].response)

C5_Witness ==
    /\ FeedbackDone(1)
    /\ replay[1].again
    /\ kt_state[1] # NoState
    /\ replay[1].kt_state = kt_state[1]
    /\ body[1].responses.kind = "list"
    /\ Len(body[1].responses.items) = 2
    /\ response[1].code = 200

\* C6: a concept no evidence was applied for never shows among concepts_mastered
\* or concepts_struggling; a first request with empty responses, history and
\* content views reports no mastered and no struggling concept.
C6_NoEvidenceNoConcepts ==
    \A t \in Threads :
        (kt_state[t] # NoState
         /\ ~replay[t].again
         /\ frame[t].responses = JList(<<>>)
         /\ frame[t].history = JList(<<>>)
         /\ frame[t].content_views = JList(<<>>)) =>
            /\ kt_state[t].concepts_mastered = <<>>
            /\ kt_state[t].concepts_struggling = <<>>

\* the members of a sequence
Range(seq) == {seq[i] : i \in 1..Len(seq)}

\* C7: from a cold store, student 42 in course 7 sends three correct responses
\* to questions of concept "linear_equations": concepts_mastered holds
\* "linear_equations" and overall_proficiency_estimate is at least 0.75.
C7_ThreeCorrectMaster ==
    \A t \in Threads :
        (kt_state[t] # NoState
         /\ ~replay[t].again
         /\ frame[t].user_id = JInt(42)
         /\ frame[t].course_id = JInt(7)
         /\ frame[t].history = JList(<<>>)
         /\ frame[t].content_views = JList(<<>>)
         /\ frame[t].responses =
                JList([i \in 1..3 |-> [question_id |-> JStr("q_lin_eq"),
                                       correct |-> [kind |-> "bool", b |-> TRUE]]])) =>
            /\ "linear_equations" \in Range(kt_state[t].concepts_mastered)
            /\ kt_state[t].overall_proficiency_estimate >= 75

\* C8: every mastery probability held or reported, overall_proficiency_estimate
\* included, is defined and within [0,1] (0..100 hundredths) after every request.
C8_ProbabilityBounded ==
    \A t \in Threads :
        /\ kt_state[t] # NoState =>
               /\ "overall_proficiency_estimate" \in DOMAIN kt_state[t]
               /\ kt_state[t].overall_proficiency_estimate \in 0..100
        /\ (FeedbackDone(t) /\ response[t].code = 200) => kt_state[t] # NoState

C8_Witness ==
    /\ pc[1] = "llm"
    /\ kt_state[1] # NoState
    /\ kt_state[1].overall_proficiency_estimate = 65
    /\ Len(frame[1].responses.items) = MaxLen

\* the value is a list, or the field is left out
ListOrAbsent(v) == v = Absent \/ v.kind = "list"

\* C9: an authenticated feedback request with the three identifiers is answered
\* with success whatever its responses, history and content views hold (empty
\* lists, records of unknown items, records without an outcome), as long as no
\* call fails for another reason.
C9_DataQualityNeverAborts ==
    \A t \in Threads :
        (FeedbackDone(t)
         /\ IdsPresent(body[t])
         /\ ListOrAbsent(body[t].responses)
         /\ ListOrAbsent(body[t].history)
         /\ ListOrAbsent(body[t].contentviews)
         /\ raised[t] # "generate_feedback_with_graphrag_llm") =>
            /\ response[t].code = 200
            /\ response[t].json.status = "success"
            /\ raised[t] = "none"

C9_Witness ==
    /\ FeedbackDone(1)
    /\ IdsPresent(body[1])
    /\ body[1].responses.kind = "list"
    /\ \E i \in 1..Len(body[1].responses.items) :
           /\ body[1].responses.items[i].correct = Absent
           /\ body[1].responses.items[i].question_id = JStr("q_unknown")
    /\ body[1].history = JList(<<>>)
    /\ response[1].code = 200

\* C10: under every interleaving of feedback requests running at the same time,
\* each request's response and knowledge state are what the request gives when
\* it runs alone.
C10_AsIfAlone ==
    \A t \in Threads :
        pc[t] = "done" =>
            [response |-> response[t], kt_state |-> kt_state[t]]
                = decorated_generate_feedback(
                      request[t].header, body[t],
                      raised[t] = "generate_feedback_with_graphrag_llm")

C10_Witness ==
    /\ pc[1] = "done"
    /\ pc[2] = "llm"
    /\ response[1].code = 200
    /\ body[1].userid = JInt(42) /\ body[1].courseid = JInt(7)
    /\ body[2].userid = JInt(43) /\ body[2].courseid = JInt(8)
    /\ kt_state[1].user_id = JInt(42)
    /\ kt_state[2].user_id = JInt(43)

\* how often a function was called for the request
Count(seq, name) == Cardinality({i \in 1..Len(seq) : seq[i] = name})

\* what holds of the calls of a feedback request at every moment
CallsInOrder(t) ==
    LET traced == Count(calls[t], "trace_student_knowledge")
        generated == Count(calls[t], "generate_feedback_with_graphrag_llm")
    IN  /\ traced <= 1 /\ generated <= 1
        /\ traced = 1 =>
               /\ GoodHeader(request[t].header)
               /\ IdsPresent(body[t])
               /\ SubSeq(calls[t], 1, 2) = <<"generate_feedback", "trace_student_knowledge">>
        /\ generated = 1 =>
               /\ calls[t] = <<"generate_feedback", "trace_student_knowledge",
                               "generate_feedback_with_graphrag_llm">>
               /\ kt_state[t] # NoState
        /\ (traced = 0 /\ pc[t] \in {"llm", "done"}
            /\ request[t].endpoint = "generate_feedback") =>
               \/ ~GoodHeader(request[t].header)
               \/ ~IdsPresent(body[t])
        /\ (FeedbackDone(t) /\ response[t].code = 200) =>
               /\ generated = 1
               /\ response[t].json.feedback =
                      generate_feedback_with_graphrag_llm(
                          body[t], kt_state[t], [course_id |-> body[t].courseid])

\* the step in which the generator runs takes the traced state and leaves it
\* as it was; no later step of the request changes it
StateOnlyRead(t) ==
    /\ (pc[t] = "llm" /\ pc'[t] = "done") =>
           /\ kt_state[t] # NoState
           /\ kt_state'[t] = kt_state[t]
    /\ (kt_state[t] # NoState /\ pc'[t] \notin {"idle", "auth"}) =>
           kt_state'[t] = kt_state[t]

\* C11: in a request of /api/generate_feedback the tracer is called exactly once
\* and only after the key and the identifiers were accepted; the feedback
\* generator is called at most once, only after the tracer returned, with the
\* knowledge state the tracer returned, which it reads and does not change.
C11_TraceThenGenerate ==
    /\ [](\A t \in Threads : CallsInOrder(t))
    /\ [][\A t \in Threads : StateOnlyRead(t)]_vars

C11_Witness ==
    /\ FeedbackDone(1)
    /\ calls[1] = <<"generate_feedback", "trace_student_knowledge",
                    "generate_feedback_with_graphrag_llm">>
    /\ response[1].code = 200
    /\ body[1].userid = JInt(42)
    /\ body[1].courseid = JInt(8)
    /\ body[1].contentviews # Absent

\* ------------------------------------------------------------------- C12
\* a field of an item that is there and is not empty
NonEmpty(v) == v \notin {Absent, None, JStr(""), JInt(0)}

\* a finished request of /api/analyze_course_content that carried the key and
\* whose books and h5p_transcripts are lists (or left out)
ContentDone(t) ==
    /\ pc[t] = "done"
    /\ request[t].endpoint = "analyze_course_content"
    /\ GoodHeader(request[t].header)
    /\ body[t].kind = "object"
    /\ body[t].books.kind \in {"list", "absent"}
    /\ body[t].h5p_transcripts.kind \in {"list", "absent"}

BooksOf(b) == IF b.books = Absent THEN <<>> ELSE b.books.items
ChaptersOf(book) == IF book.chapters = Absent THEN <<>> ELSE book.chapters.items
TranscriptsOf(b) == IF b.h5p_transcripts = Absent THEN <<>> ELSE b.h5p_transcripts.items

\* the places <<book, chapter>> of the chapters with both fields, and the
\* places of the H5P transcripts with both fields
KeptChapterPlaces(b) ==
    UNION {{<<i, j>> : j \in {j \in 1..Len(ChaptersOf(BooksOf(b)[i])) :
                                /\ NonEmpty(ChaptersOf(BooksOf(b)[i])[j].chapterid)
                                /\ NonEmpty(ChaptersOf(BooksOf(b)[i])[j].content)}} :
           i \in 1..Len(BooksOf(b))}
KeptTranscriptPlaces(b) ==
    {j \in 1..Len(TranscriptsOf(b)) :
        /\ NonEmpty(TranscriptsOf(b)[j].h5pid)
        /\ NonEmpty(TranscriptsOf(b)[j].transcript)}

\* how many kept places come up to and including this one, in input order
ChapterRank(b, p) ==
    Cardinality({q \in KeptChapterPlaces(b) :
                    q[1] < p[1] \/ (q[1] = p[1] /\ q[2] <= p[2])})
TranscriptRank(b, j) == Cardinality({k \in KeptTranscriptPlaces(b) : k <= j})

ContentInOrder(t) ==
    LET b == body[t]
        out == response[t].json
        kept == Cardinality(KeptChapterPlaces(b)) + Cardinality(KeptTranscriptPlaces(b))
    IN  /\ response[t].code = 200
        /\ out.status = "success"
        /\ Len(out.bookchapters) = Cardinality(KeptChapterPlaces(b))
        /\ \A p \in KeptChapterPlaces(b) :
              LET chapter == ChaptersOf(BooksOf(b)[p[1]])[p[2]]
                  entry == out.bookchapters[ChapterRank(b, p)]
              IN  /\ entry.chapterid = chapter.chapterid
                  /\ entry.summary = [summary_of |-> chapter.content]
        /\ Len(out.h5pactivities) = Cardinality(KeptTranscriptPlaces(b))
        /\ \A j \in KeptTranscriptPlaces(b) :
              LET h5p == TranscriptsOf(b)[j]
                  entry == out.h5pactivities[TranscriptRank(b, j)]
              IN  /\ entry.h5pid = h5p.h5pid
                  /\ entry.summary = [summary_of |-> h5p.transcript]
        /\ Len(calls[t]) = 1 + 3 * kept
        /\ Count(calls[t], "summarize_content") = kept
        /\ Count(calls[t], "extract_taxonomy_tags_for_text") = kept
        /\ Count(calls[t], "generate_embedding_for_text") = kept

\* C12: a request of /api/analyze_course_content with lists of books and H5P
\* transcripts is answered 200 "success"; bookchapters has exactly one entry
\* for each chapter whose chapterid and content are both non-empty, books in
\* order and chapters in order within a book; h5pactivities has exactly one
\* entry for each item whose h5pid and transcript are both non-empty, in
\* order; summarize_content, extract_taxonomy_tags_for_text and
\* generate_embedding_for_text are called once for each entry and never for a
\* skipped item.
C12_EntriesInInputOrder ==
    \A t \in Threads : ContentDone(t) => ContentInOrder(t)

\* two books, the first with a chapter that is kept and one that is skipped,
\* the second with another chapter that is kept
C12_Witness ==
    /\ ContentDone(1)
    /\ body[1].books.kind = "list"
    /\ Len(body[1].books.items) = 2
    /\ body[1].books.items[1].chapters =
           JList(<<[kind |-> "object", chapterid |-> JInt(2), content |-> JStr("calculate")],
                   [kind |-> "object", chapterid |-> Absent, content |-> JStr("calculate")]>>)
    /\ body[1].books.items[2].chapters =
           JList(<<[kind |-> "object", chapterid |-> JInt(1),
                    content |-> JStr("algebra and solving equations")]>>)
    /\ body[1].h5p_transcripts = JList(<<>>)
    /\ response[1].code = 200
    /\ Len(response[1].json.bookchapters) = 2
    /\ response[1].json.bookchapters[1].chapterid = JInt(2)
    /\ response[1].json.bookchapters[2].chapterid = JInt(1)
    /\ response[1].json.h5pactivities = <<>>

====
